---- MODULE Spec2Model ----
(***************************************************************************)
(* Model of the strategic-bombing data tools:                              *)
(*   src/visualize_usaaf_bombing.py  the plotting script, a top-level      *)
(*                                   script run once from top to bottom   *)
(*   src/app.py                      the dashboard (load_data and pages)   *)
(* Both read the same processed raid file.                                 *)
(*                                                                         *)
(* Numbers.  A pandas cell is modelled as a one-element tuple <<v>>, a     *)
(* missing cell (NaN) as the empty tuple.  Real-valued columns are kept as *)
(* integers in a fixed unit: scores in 1/ScoreDen points, year offsets in  *)
(* 1/YearDen years, derived tonnages in 1/100 ton.                         *)
(***************************************************************************)
EXTENDS Integers, Sequences, FiniteSets, TLC

VARIABLES
    file,      \* the processed raid file on disk (columns and rows)
    pdf,       \* plotting script: the DataFrame df
    ppc,       \* plotting script: position in the script
    top_cities,\* plotting script: the list top_cities
    outputs,   \* plotting script: charts and aggregates produced so far, in order
    ddf,       \* dashboard: the DataFrame returned by load_data
    dpc,       \* dashboard: position
    derr,      \* dashboard: whether load_data reported an error (st.error)
    cities,    \* dashboard: the filter list cities
    categories,\* dashboard: the filter list categories
    years,     \* dashboard: the filter list years
    screen     \* dashboard: what the last run of the page code put on the screen

vars == <<file, pdf, ppc, top_cities, outputs, ddf, dpc, derr,
          cities, categories, years, screen>>

\* the dashboard's filter lists and screen
dview == <<cities, categories, years, screen>>

----------------------------------------------------------------------------
(* Bounds of the model *)

MaxRows == 2     \* rows in the processed file
ScoreDen == 2    \* a score s stands for s / ScoreDen points
YearDen == 2     \* a YEAR offset o stands for o / YearDen years
MaxGroup == 22   \* raids in the largest group of one year, category and city

----------------------------------------------------------------------------
(* Cells *)

NaN == <<>>
IsNaN(c) == c = <<>>
Val(c) == c[1]

\* Series.fillna(v) on one cell
fillna(c, v) == IF IsNaN(c) THEN <<v>> ELSE c

\* Series.clip(lo, hi) on one cell: NaN stays NaN
clip(c, lo, hi) ==
    IF IsNaN(c) THEN NaN
    ELSE IF Val(c) < lo THEN <<lo>>
    ELSE IF Val(c) > hi THEN <<hi>>
    ELSE c

----------------------------------------------------------------------------
(* The processed raid file *)

\* The file carries the YEAR offset and no Year column: the case in which both
\* programs derive Year.
FileColumns ==
    {"raid_id", "AREA_BOMBING_SCORE_NORMALIZED", "YEAR", "MONTH",
     "INCENDIARY_PERCENT", "TOTAL_TONS", "CATEGORY", "target_location",
     "target_name"}

\* area_bombing_score_normalized as the scoring engine writes it, in [0,10]:
\* the bin edges and the values just above them
ScoreValues ==
    {e * ScoreDen + f : e \in {0, 2, 4, 6, 8, 10}, f \in {0, 1}} \cap (0..(10 * ScoreDen))

\* YEAR offsets: whole offsets and offsets with a fractional part, or missing
OffsetValues ==
    {NaN} \cup {<<o * YearDen + f>> : o \in {-5, -1, 0, 1, 6, 7}, f \in {0, 1}}

\* MONTH: a calendar month, or missing
MonthValues == {NaN, <<1>>, <<4>>, <<12>>}

IncendiaryValues == {NaN, <<-10>>, <<0>>, <<40>>, <<100>>, <<120>>}

TonsValues == {NaN, <<-50>>, <<0>>, <<100>>, <<600>>}

CategoryValues == {NaN, <<"OIL">>, <<"RAIL">>}

\* raw location strings, as sequences of characters
LocationValues ==
    {NaN, << <<"A">> >>, << <<"a">> >>, << <<" ", "a", " ">> >>,
     << <<"B">> >>, << <<"a", " ", "b">> >>, << <<" ">> >>}

BaseRow(i) ==
    [raid_id |-> i,
     AREA_BOMBING_SCORE_NORMALIZED |-> 3 * ScoreDen,
     YEAR |-> <<3 * YearDen>>,
     MONTH |-> <<5>>,
     INCENDIARY_PERCENT |-> <<40>>,
     TOTAL_TONS |-> <<100>>,
     CATEGORY |-> <<"OIL">>,
     target_location |-> << <<"A">> >>,
     target_name |-> << <<"A">> >>]

VariedColumns == FileColumns \ {"raid_id", "target_name"}

ColumnValues(col) ==
    CASE col = "AREA_BOMBING_SCORE_NORMALIZED" -> ScoreValues
      [] col = "YEAR" -> OffsetValues
      [] col = "MONTH" -> MonthValues
      [] col = "INCENDIARY_PERCENT" -> IncendiaryValues
      [] col = "TOTAL_TONS" -> TonsValues
      [] col = "CATEGORY" -> CategoryValues
      [] col = "target_location" -> LocationValues

\* the tables of 1..MaxRows rows in which one column takes arbitrary values
TablesVarying(col) ==
    UNION {
        {[i \in 1..n |-> [BaseRow(i) EXCEPT ![col] = vals[i]]] :
            vals \in [1..n -> ColumnValues(col)]}
        : n \in 1..MaxRows}

\* two raids of the base kind with scores 7 and 10: an Area and a Heavy Area raid
AreaRows(n) ==
    <<[BaseRow(n + 1) EXCEPT !.AREA_BOMBING_SCORE_NORMALIZED = 7 * ScoreDen],
      [BaseRow(n + 2) EXCEPT !.AREA_BOMBING_SCORE_NORMALIZED = 10 * ScoreDen]>>

\* the tables above, and the shorter ones of them followed by the two area raids
Files ==
    {[columns |-> FileColumns, rows |-> t] :
        t \in UNION {TablesVarying(col) : col \in VariedColumns}}
    \cup
    {[columns |-> FileColumns, rows |-> t \o AreaRows(Len(t))] :
        t \in {u \in UNION {TablesVarying(col) : col \in VariedColumns} :
                   Len(u) < MaxRows}}

\* the target names of the group tables: "a", "Ba", "B" and a missing name in
\* turn
GroupName(i) ==
    CASE i % 4 = 1 -> << <<"a">> >>
      [] i % 4 = 2 -> << <<"B", "a">> >>
      [] i % 4 = 3 -> << <<"B">> >>
      [] OTHER -> NaN

\* n raids on rail targets of 1944 at B, followed by the two area raids (oil,
\* 1943, at A): the year, category and city groups of the first n raids have
\* n members
GroupTable(n) ==
    [i \in 1..n |-> [BaseRow(i) EXCEPT !.YEAR = <<4 * YearDen>>,
                                        !.CATEGORY = <<"RAIL">>,
                                        !.target_location = << <<"B">> >>,
                                        !.target_name = GroupName(i)]]
    \o AreaRows(n)

\* raw locations with and without a space inside, and a blank one
SpacedLocations == {<< <<"a">> >>, << <<"a", " ", "b">> >>, << <<" ">> >>}

\* two raids at such locations, or one raid of 1939, 1940 or 1946, followed by
\* the two area raids
BrowseTables ==
    {[i \in 1..2 |-> [BaseRow(i) EXCEPT !.target_location = vals[i]]] \o AreaRows(2) :
        vals \in [1..2 -> SpacedLocations]}
    \cup
    {<<[BaseRow(1) EXCEPT !.YEAR = <<o * YearDen>>]>> \o AreaRows(1) : o \in {-1, 0, 6}}

BrowseFiles == {[columns |-> FileColumns, rows |-> t] : t \in BrowseTables}

GroupFiles == {[columns |-> FileColumns, rows |-> GroupTable(n)] : n \in 1..MaxGroup}

\* pd.DataFrame()
EmptyDataFrame == [columns |-> {}, rows |-> <<>>]

\* the processed file is not there, or holds nothing to parse
NoFile == [columns |-> {}, rows |-> <<>>]

\* pd.read_csv raises FileNotFoundError / EmptyDataError on such a file
ReadCsvRaises(f) == f.columns = {}

----------------------------------------------------------------------------
(* Helpers on sequences *)

RECURSIVE SortedSeq(_)
\* sorted(...) of a set of integers
SortedSeq(S) ==
    IF S = {} THEN <<>>
    ELSE LET m == CHOOSE x \in S : \A y \in S : x <= y
         IN <<m>> \o SortedSeq(S \ {m})

RECURSIVE UniqueSeq(_)
\* Series.unique(): the distinct values in order of first appearance
UniqueSeq(s) ==
    IF s = <<>> THEN <<>>
    ELSE LET init == UniqueSeq(SubSeq(s, 1, Len(s) - 1))
             last == s[Len(s)]
         IN IF \E i \in 1..Len(init) : init[i] = last THEN init
            ELSE Append(init, last)

RECURSIVE SelectRows(_, _)
\* df[mask]: the rows at the positions in keep, in their order
SelectRows(rows, keep) ==
    IF rows = <<>> THEN <<>>
    ELSE LET init == SelectRows(SubSeq(rows, 1, Len(rows) - 1), keep)
         IN IF Len(rows) \in keep THEN Append(init, rows[Len(rows)]) ELSE init

RECURSIVE SumCells(_)
\* Series.sum(): NaN cells are skipped
SumCells(cs) ==
    IF cs = <<>> THEN 0
    ELSE (IF IsNaN(Head(cs)) THEN 0 ELSE Val(Head(cs))) + SumCells(Tail(cs))

\* Series.count(): the number of cells that are not NaN
CountCells(cs) == Cardinality({i \in 1..Len(cs) : ~IsNaN(cs[i])})

\* Series.mean(), kept as the pair (sum, count) of the non-missing cells
MeanCells(cs) == [sum |-> SumCells(cs), n |-> CountCells(cs)]

----------------------------------------------------------------------------
(* Strings: sequences of characters *)

IsSpace(c) == c = " "

\* str.swapcase() on one character
SwapCase(c) ==
    CASE c = "a" -> "A"
      [] c = "b" -> "B"
      [] c = "A" -> "a"
      [] c = "B" -> "b"
      [] OTHER -> c

\* str.upper() on one character
Upper(c) ==
    CASE c = "a" -> "A"
      [] c = "b" -> "B"
      [] c = "n" -> "N"
      [] OTHER -> c

Lower(c) ==
    CASE c = "A" -> "a"
      [] c = "B" -> "b"
      [] c = "C" -> "c"
      [] c = "E" -> "e"
      [] c = "F" -> "f"
      [] c = "H" -> "h"
      [] c = "I" -> "i"
      [] c = "N" -> "n"
      [] c = "R" -> "r"
      [] c = "S" -> "s"
      [] c = "T" -> "t"
      [] c = "U" -> "u"
      [] c = "W" -> "w"
      [] c = "Year" -> "year"
      [] c = "Category" -> "category"
      [] c = "City" -> "city"
      [] c = "OIL" -> "oil"
      [] c = "RAIL" -> "rail"
      [] OTHER -> c

RECURSIVE lstrip(_)
lstrip(s) == IF s # <<>> /\ IsSpace(Head(s)) THEN lstrip(Tail(s)) ELSE s

RECURSIVE rstrip(_)
rstrip(s) ==
    IF s # <<>> /\ IsSpace(s[Len(s)]) THEN rstrip(SubSeq(s, 1, Len(s) - 1)) ELSE s

\* str.strip()
strip(s) == rstrip(lstrip(s))

\* str.upper()
upper(s) == [i \in 1..Len(s) |-> Upper(s[i])]

\* str.lower()
lower(s) == [i \in 1..Len(s) |-> Lower(s[i])]

\* str.replace(old, new) for single characters
replace(s, old, new) == [i \in 1..Len(s) |-> IF s[i] = old THEN new ELSE s[i]]

\* ord(c), for the order of strings
Ord(c) ==
    CASE c = " " -> 32
      [] c = "A" -> 65
      [] c = "B" -> 66
      [] c = "OIL" -> 79
      [] c = "RAIL" -> 82
      [] c = "a" -> 97
      [] c = "b" -> 98

RECURSIVE StrLeq(_, _)
\* a <= b for two strings
StrLeq(a, b) ==
    IF a = <<>> THEN TRUE
    ELSE IF b = <<>> THEN FALSE
    ELSE IF Ord(Head(a)) # Ord(Head(b)) THEN Ord(Head(a)) < Ord(Head(b))
    ELSE StrLeq(Tail(a), Tail(b))

RECURSIVE SortedStrings(_)
\* sorted(...) of a set of strings
SortedStrings(S) ==
    IF S = {} THEN <<>>
    ELSE LET m == CHOOSE x \in S : \A y \in S : StrLeq(x, y)
         IN <<m>> \o SortedStrings(S \ {m})

\* Series.str.strip().str.upper() on one cell: NaN stays NaN
StrStripUpper(c) == IF IsNaN(c) THEN NaN ELSE <<upper(strip(Val(c)))>>

\* The .str accessor exists only on a column that holds strings: a column whose
\* cells are all missing is read as float64 and .str raises AttributeError.
StrAccessorOK(rows) == \E i \in 1..Len(rows) : ~IsNaN(rows[i].target_location)

----------------------------------------------------------------------------
(* Year derivation *)

\* astype(int) of a float: truncation toward zero (n in 1/YearDen years)
AsInt(n) == IF n >= 0 THEN n \div YearDen ELSE -((-n) \div YearDen)

\* (1940 + YEAR).astype(int) for an offset that is not missing
RawYear(off) == AsInt(1940 * YearDen + off)

\* PlotClampYear with the upper test written >= 1946
PlotClampYearFrom1946(y) ==
    LET y1 == IF y < 1941 THEN 1941 ELSE y
    IN IF y1 >= 1946 THEN 1945 ELSE y1

\* df.loc[df['Year'] < 1941, 'Year'] = 1941; df.loc[df['Year'] > 1946, 'Year'] = 1945
PlotClampYear(y) ==
    LET y1 == IF y < 1941 THEN 1941 ELSE y
    IN IF y1 > 1946 THEN 1945 ELSE y1

\* DashClampYear with the lower test written <= 1939
DashClampYearFrom1939(y) ==
    LET y1 == IF y <= 1939 THEN 1940 ELSE y
    IN IF y1 > 1946 THEN 1945 ELSE y1

\* DashClampYear with the upper test written > 1945
DashClampYearAbove1945(y) ==
    LET y1 == IF y < 1939 THEN 1940 ELSE y
    IN IF y1 > 1945 THEN 1945 ELSE y1

\* data.loc[data['Year'] < 1939, 'Year'] = 1940; data.loc[data['Year'] > 1946, 'Year'] = 1945
DashClampYear(y) ==
    LET y1 == IF y < 1939 THEN 1940 ELSE y
    IN IF y1 > 1946 THEN 1945 ELSE y1

----------------------------------------------------------------------------
(* Score categories *)

Bins == <<0, 2, 4, 6, 8, 10>>

Labels ==
    <<"Very Precise (0-2)", "Precise (2-4)", "Mixed (4-6)", "Area (6-8)",
      "Heavy Area (8-10)">>

\* pd.cut(x, bins=Bins, labels=Labels) on one score: right=True and
\* include_lowest=False are the defaults, so bin i is (Bins[i], Bins[i+1]]
\* and a value in no bin is NaN
cut(s) ==
    LET hit == {i \in 1..Len(Labels) :
                   Bins[i] * ScoreDen < s /\ s <= Bins[i + 1] * ScoreDen}
    IN IF hit = {} THEN NaN ELSE <<Labels[CHOOSE i \in hit : TRUE]>>

----------------------------------------------------------------------------
(* Cross-tabulations *)

\* pd.crosstab(index, columns) of two columns of cells: the count of rows for
\* every pair (index value, column value).  dropna=True is the default: a row
\* with a missing cell is left out, and only the index values and the category
\* labels that occur appear in the table.
crosstab(index, columns) ==
    LET kept == {i \in 1..Len(index) : ~IsNaN(index[i]) /\ ~IsNaN(columns[i])}
        idx == {Val(index[i]) : i \in kept}
        cols == {Val(columns[i]) : i \in kept}
    IN [k \in idx |->
           [c \in cols |->
               Cardinality({i \in kept : Val(index[i]) = k /\ Val(columns[i]) = c})]]

RECURSIVE RowSum(_)
\* DataFrame.sum(axis=1) for one row of a table of counts
RowSum(row) ==
    IF DOMAIN row = {} THEN 0
    ELSE LET c == CHOOSE x \in DOMAIN row : TRUE
         IN row[c] + RowSum([x \in DOMAIN row \ {c} |-> row[x]])

\* table.div(table.sum(axis=1), axis=0) * 100: every count as a percentage of
\* its row, kept as the fraction num / den
row_pct(table) ==
    [k \in DOMAIN table |->
        [c \in DOMAIN table[k] |-> [num |-> 100 * table[k][c], den |-> RowSum(table[k])]]]

----------------------------------------------------------------------------
(* Plotting script: generate_plots *)

Column(rows, col) == [i \in 1..Len(rows) |-> rows[i][col]]

\* f'{save_dir}/<kind>_{group_name.replace(" ", "_").lower()}.png'
PlotFile(save_dir, kind, group_name) ==
    [dir |-> save_dir, name |-> <<kind, "_">> \o lower(replace(group_name, " ", "_"))]

\* generate_plots with the category pie drawn from 20 raids on
generate_plots_pie_from_20(data, group_name, save_dir) ==
    [fn |-> "generate_plots",
     group_name |-> group_name,
     scores |-> Column(data, "AREA_BOMBING_SCORE_NORMALIZED"),
     incendiary |->
        [i \in 1..Len(data) |->
            [raid_id |-> data[i].raid_id,
             x |-> clip(data[i].TOTAL_TONS, 0, 500),
             v |-> clip(data[i].INCENDIARY_PERCENT, 0, 100)]],
     files |->
        <<PlotFile(save_dir, "score_distribution", group_name),
          PlotFile(save_dir, "tonnage_vs_incendiary", group_name),
          PlotFile(save_dir, "scores_by_target_type", group_name)>>
        \o (IF Len(data) >= 20
            THEN <<PlotFile(save_dir, "category_pie", group_name)>> ELSE <<>>)
        \o (IF Len(data) >= 5
            THEN <<PlotFile(save_dir, "component_radar", group_name)>> ELSE <<>>)]

\* One call of generate_plots: the files it saves, the scores it was given and
\* the points of the tonnage-vs-incendiary scatter.
generate_plots(data, group_name, save_dir) ==
    [fn |-> "generate_plots",
     group_name |-> group_name,
     scores |-> Column(data, "AREA_BOMBING_SCORE_NORMALIZED"),
     incendiary |->
        [i \in 1..Len(data) |->
            [raid_id |-> data[i].raid_id,
             x |-> clip(data[i].TOTAL_TONS, 0, 500),
             v |-> clip(data[i].INCENDIARY_PERCENT, 0, 100)]],
     files |->
        <<PlotFile(save_dir, "score_distribution", group_name),
          PlotFile(save_dir, "tonnage_vs_incendiary", group_name),
          PlotFile(save_dir, "scores_by_target_type", group_name)>>
        \o (IF Len(data) > 20
            THEN <<PlotFile(save_dir, "category_pie", group_name)>> ELSE <<>>)
        \o (IF Len(data) >= 5
            THEN <<PlotFile(save_dir, "component_radar", group_name)>> ELSE <<>>)]

----------------------------------------------------------------------------
(* Plotting script: the steps of the script, in order *)

\* df = pd.read_csv('processed_data/usaaf/usaaf_raids_full.csv')
\* (an uncaught exception ends the script)
PLoad ==
    /\ ppc = "load"
    /\ IF ReadCsvRaises(file)
       THEN /\ pdf' = pdf
            /\ ppc' = "aborted"
       ELSE /\ pdf' = file
            /\ ppc' = "year"
    /\ UNCHANGED <<file, top_cities, outputs, ddf, dpc, derr, dview>>

\* one row of the Year derivation: YEAR filled with 0, Year = int(1940 + YEAR), clamped
PlotYearRow(r) ==
    LET off == fillna(r.YEAR, 0)
    IN [Year |-> PlotClampYear(RawYear(Val(off)))] @@ [r EXCEPT !.YEAR = off]

\* "Cleaning year data": only when the file has YEAR and no Year column
PCleanYear ==
    /\ ppc = "year"
    /\ pdf' = IF "Year" \notin pdf.columns /\ "YEAR" \in pdf.columns
              THEN [columns |-> pdf.columns \cup {"Year"},
                    rows |-> [i \in 1..Len(pdf.rows) |-> PlotYearRow(pdf.rows[i])]]
              ELSE pdf
    /\ ppc' = "location"
    /\ UNCHANGED <<file, top_cities, outputs, ddf, dpc, derr, dview>>

PlotLocationRow(r) == [Location |-> StrStripUpper(r.target_location)] @@ r

\* df['Location'] = df['target_location'].str.strip().str.upper()
\* (an uncaught AttributeError ends the script)
PLocation ==
    /\ ppc = "location"
    /\ IF StrAccessorOK(pdf.rows)
       THEN /\ pdf' = [columns |-> pdf.columns \cup {"Location"},
                       rows |-> [i \in 1..Len(pdf.rows) |-> PlotLocationRow(pdf.rows[i])]]
            /\ ppc' = "top_cities"
       ELSE /\ pdf' = pdf
            /\ ppc' = "aborted"
    /\ UNCHANGED <<file, top_cities, outputs, ddf, dpc, derr, dview>>

SCHWEINFURT == <<"S", "C", "H", "W", "E", "I", "N", "F", "U", "R", "T">>

\* the positions of the rows whose Location is the string city
RowsAt(rows, city) ==
    {i \in 1..Len(rows) : ~IsNaN(rows[i].Location) /\ Val(rows[i].Location) = city}

\* df['Location'].value_counts().index: the distinct locations (NaN dropped) by
\* falling count; the order among equal counts is not fixed
ValueCountsOrders(rows) ==
    LET locs == {Val(rows[i].Location) : i \in {j \in 1..Len(rows) : ~IsNaN(rows[j].Location)}}
        n == Cardinality(locs)
    IN {q \in [1..n -> locs] :
           /\ \A i, j \in 1..n : i # j => q[i] # q[j]
           /\ \A i, j \in 1..n :
                 i < j => Cardinality(RowsAt(rows, q[i])) >= Cardinality(RowsAt(rows, q[j]))}

\* Series.head(n) / nlargest(n) of an ordering
head(q, n) == SubSeq(q, 1, IF Len(q) < n THEN Len(q) ELSE n)

\* top_cities = value_counts().head(50), plus SCHWEINFURT when it is not in it
PTopCities ==
    /\ ppc = "top_cities"
    /\ \E q \in ValueCountsOrders(pdf.rows) :
          LET top == head(q, 50)
          IN top_cities' = IF \E i \in 1..Len(top) : top[i] = SCHWEINFURT
                           THEN top ELSE Append(top, SCHWEINFURT)
    /\ ppc' = "score_category"
    /\ UNCHANGED <<file, pdf, outputs, ddf, dpc, derr, dview>>

\* ScoreCategoryRow that also rescales the score column in place
ScoreCategoryRowRescaled(r) ==
    [Score_Category |-> cut(r.AREA_BOMBING_SCORE_NORMALIZED)]
    @@ [r EXCEPT !.AREA_BOMBING_SCORE_NORMALIZED = @ * 10]

ScoreCategoryRow(r) == [Score_Category |-> cut(r.AREA_BOMBING_SCORE_NORMALIZED)] @@ r

\* PScoreCategory with the scores first rescaled by the largest score of the
\* column, so that a raid's category depends on the other raids
PScoreCategoryRelative ==
    /\ ppc = "score_category"
    /\ LET top == CHOOSE m \in {pdf.rows[i].AREA_BOMBING_SCORE_NORMALIZED :
                                   i \in 1..Len(pdf.rows)} :
                      \A i \in 1..Len(pdf.rows) :
                          pdf.rows[i].AREA_BOMBING_SCORE_NORMALIZED <= m
           rel(x) == IF top = 0 THEN 0 ELSE (x * 10 * ScoreDen) \div top
       IN pdf' = [columns |-> pdf.columns \cup {"Score Category"},
                  rows |-> [i \in 1..Len(pdf.rows) |->
                      [Score_Category |-> cut(rel(pdf.rows[i].AREA_BOMBING_SCORE_NORMALIZED))]
                      @@ pdf.rows[i]]]
    /\ ppc' = "plots_by_year"
    /\ UNCHANGED <<file, top_cities, outputs, ddf, dpc, derr, dview>>

\* PScoreCategory followed by a dropna on the new column
PScoreCategoryDropna ==
    /\ ppc = "score_category"
    /\ pdf' = [columns |-> pdf.columns \cup {"Score Category"},
               rows |-> SelectRows(
                   [i \in 1..Len(pdf.rows) |-> ScoreCategoryRow(pdf.rows[i])],
                   {i \in 1..Len(pdf.rows) :
                       ~IsNaN(cut(pdf.rows[i].AREA_BOMBING_SCORE_NORMALIZED))})]
    /\ ppc' = "plots_by_year"
    /\ UNCHANGED <<file, top_cities, outputs, ddf, dpc, derr, dview>>

\* df['Score Category'] = pd.cut(df['AREA_BOMBING_SCORE_NORMALIZED'], ...)
PScoreCategory ==
    /\ ppc = "score_category"
    /\ pdf' = [columns |-> pdf.columns \cup {"Score Category"},
               rows |-> [i \in 1..Len(pdf.rows) |-> ScoreCategoryRow(pdf.rows[i])]]
    /\ ppc' = "plots_by_year"
    /\ UNCHANGED <<file, top_cities, outputs, ddf, dpc, derr, dview>>

\* f"{year}" for the years that are plotted or offered by the dashboard
YearStr(y) ==
    CASE y = 1940 -> "1940"
      [] y = 1941 -> "1941"
      [] y = 1942 -> "1942"
      [] y = 1943 -> "1943"
      [] y = 1944 -> "1944"
      [] y = 1945 -> "1945"

\* "Generating plots by year": for year in sorted(df['Year'].unique()),
\* 1941 <= year <= 1945, generate_plots(df[df['Year'] == year], f"Year {year}", ...)
PPlotsByYear ==
    /\ ppc = "plots_by_year"
    /\ LET df_years == SortedSeq({pdf.rows[i].Year : i \in 1..Len(pdf.rows)})
           plotted == SelectSeq(df_years, LAMBDA y : y >= 1941 /\ y <= 1945)
           year_data(y) ==
               SelectRows(pdf.rows, {i \in 1..Len(pdf.rows) : pdf.rows[i].Year = y})
       IN outputs' = outputs \o
              [k \in 1..Len(plotted) |->
                  generate_plots(year_data(plotted[k]),
                                 <<"Year", " ", YearStr(plotted[k])>>,
                                 "plots/usaaf/years")]
    /\ ppc' = "year_evolution"
    /\ UNCHANGED <<file, pdf, top_cities, ddf, dpc, derr, dview>>

\* a chart file saved under a fixed name
ChartFile(dir, name) == [dir |-> dir, name |-> <<name>>]

\* "Creating year evolution plots": yearly_evolution.png, then the stacked bars
\* of year_cat_pct, the crosstab of Year and Score Category restricted to
\* 1941..1945, saved as category_by_year.png
PYearEvolution ==
    /\ ppc = "year_evolution"
    /\ LET year_cat == crosstab([i \in 1..Len(pdf.rows) |-> <<pdf.rows[i].Year>>],
                                Column(pdf.rows, "Score_Category"))
           shown == [y \in DOMAIN year_cat \cap 1941..1945 |-> year_cat[y]]
       IN outputs' = Append(outputs,
              [fn |-> "category_by_year",
               incendiary |-> <<>>,
               year_cat_pct |-> row_pct(shown),
               files |-> <<ChartFile("plots/usaaf/years", "yearly_evolution"),
                           ChartFile("plots/usaaf/years", "category_by_year")>>])
    /\ ppc' = "plots_by_category"
    /\ UNCHANGED <<file, pdf, top_cities, ddf, dpc, derr, dview>>

\* "Generating plots by category": for category in df['CATEGORY'].unique(), not NaN
PPlotsByCategory ==
    /\ ppc = "plots_by_category"
    /\ LET cats == SelectSeq(UniqueSeq(Column(pdf.rows, "CATEGORY")),
                             LAMBDA c : ~IsNaN(c))
           category_data(c) ==
               SelectRows(pdf.rows, {i \in 1..Len(pdf.rows) : pdf.rows[i].CATEGORY = c})
       IN outputs' = outputs \o
              [k \in 1..Len(cats) |->
                  generate_plots(category_data(cats[k]),
                                 <<"Category", " ", Val(cats[k])>>,
                                 "plots/usaaf/categories")]
    /\ ppc' = "plots_by_city"
    /\ UNCHANGED <<file, pdf, top_cities, ddf, dpc, derr, dview>>

\* "Generating plots by city": for city in value_counts().nlargest(50), skipping
\* the empty string
PPlotsByCity ==
    /\ ppc = "plots_by_city"
    /\ \E q \in ValueCountsOrders(pdf.rows) :
          LET top_50_cities == SelectSeq(head(q, 50), LAMBDA c : strip(c) # <<>>)
          IN outputs' = outputs \o
                 [k \in 1..Len(top_50_cities) |->
                     generate_plots(SelectRows(pdf.rows, RowsAt(pdf.rows, top_50_cities[k])),
                                    <<"City", " ">> \o top_50_cities[k],
                                    "plots/usaaf/cities")]
    /\ ppc' = "city_comparison"
    /\ UNCHANGED <<file, pdf, top_cities, ddf, dpc, derr, dview>>

\* "Creating city comparison plots": city_comparison.png and city_evolution.png,
\* then city_categories_pct, the crosstab of Location and Score Category over
\* the raids on top_cities.  Line 333 reads its columns 'Area (6-8)' and
\* 'Heavy Area (8-10)': when no such raid is in the crosstab the column is not
\* there and the uncaught KeyError ends the script.
PCityComparison ==
    /\ ppc = "city_comparison"
    /\ LET in_top == SelectRows(pdf.rows,
                         {i \in 1..Len(pdf.rows) :
                             /\ ~IsNaN(pdf.rows[i].Location)
                             /\ \E k \in 1..Len(top_cities) :
                                    top_cities[k] = Val(pdf.rows[i].Location)})
           city_categories == crosstab(Column(in_top, "Location"),
                                       Column(in_top, "Score_Category"))
           columns == UNION {DOMAIN city_categories[c] : c \in DOMAIN city_categories}
           saved == [fn |-> "city_comparison",
                     incendiary |-> <<>>,
                     files |-> <<ChartFile("plots/usaaf/cities", "city_comparison"),
                                 ChartFile("plots/usaaf/cities", "city_evolution")>>]
       IN IF {"Area (6-8)", "Heavy Area (8-10)"} \subseteq columns
          THEN /\ outputs' = outputs \o
                      <<saved,
                        [fn |-> "category_by_city",
                         incendiary |-> <<>>,
                         city_categories_pct |-> row_pct(city_categories),
                         files |-> <<ChartFile("plots/usaaf/cities", "category_by_city")>>]>>
               /\ ppc' = "raf_comparison"
          ELSE /\ outputs' = Append(outputs, saved)
               /\ ppc' = "aborted"
    /\ UNCHANGED <<file, pdf, top_cities, ddf, dpc, derr, dview>>

\* "Creating USAAF/RAF comparison plots".  all_raids is read at line 365, before
\* the try of line 369: when the read raises, the script ends.  Inside the try,
\* line 372 reads the name raids_summary, which the script binds nowhere: the
\* NameError is caught at line 423 and the section is skipped with a message.
PRafComparison ==
    /\ ppc = "raf_comparison"
    /\ \E all_raids_read \in BOOLEAN :
          IF all_raids_read
          THEN /\ outputs' = Append(outputs,
                      [fn |-> "Skipping RAF comparison due to error",
                       incendiary |-> <<>>,
                       files |-> <<>>])
               /\ ppc' = "general"
          ELSE /\ outputs' = outputs
               /\ ppc' = "aborted"
    /\ UNCHANGED <<file, pdf, top_cities, ddf, dpc, derr, dview>>

\* "Creating general bombing campaign visualizations": the histogram of all
\* scores and the histogram of TOTAL_TONS clipped to [0, 500]
PGeneral ==
    /\ ppc = "general"
    /\ outputs' = outputs \o
          <<[fn |-> "overall_score_distribution",
             incendiary |-> <<>>,
             files |-> <<ChartFile("plots/usaaf/general", "overall_score_distribution")>>],
            [fn |-> "tonnage_distribution",
             incendiary |-> <<>>,
             tonnage_data |-> [i \in 1..Len(pdf.rows) |-> clip(pdf.rows[i].TOTAL_TONS, 0, 500)],
             files |-> <<ChartFile("plots/usaaf/general", "tonnage_distribution")>>]>>
    /\ ppc' = "incendiary_vs_he"
    /\ UNCHANGED <<file, pdf, top_cities, ddf, dpc, derr, dview>>

\* x * y for cells, NaN if either is NaN
MulCells(a, b) == IF IsNaN(a) \/ IsNaN(b) THEN NaN ELSE <<Val(a) * Val(b)>>

\* INCENDIARY_PERCENT filled with 0; HE_PERCENT = 100 - INCENDIARY_PERCENT;
\* HE_TONS and INCENDIARY_TONS = TOTAL_TONS * percent / 100 (kept in 1/100 ton)
HERow(r) ==
    LET inc == fillna(r.INCENDIARY_PERCENT, 0)
        he == <<100 - Val(inc)>>
    IN [HE_PERCENT |-> he,
        HE_TONS |-> MulCells(r.TOTAL_TONS, he),
        INCENDIARY_TONS |-> MulCells(r.TOTAL_TONS, inc)]
       @@ [r EXCEPT !.INCENDIARY_PERCENT = inc]

\* "3. Incendiary vs HE Bombing Analysis": the column assignments
PIncendiaryVsHE ==
    /\ ppc = "incendiary_vs_he"
    /\ pdf' = [columns |-> pdf.columns \cup {"HE_PERCENT", "HE_TONS", "INCENDIARY_TONS"},
               rows |-> [i \in 1..Len(pdf.rows) |-> HERow(pdf.rows[i])]]
    /\ ppc' = "bombing_by_year"
    /\ UNCHANGED <<file, top_cities, outputs, ddf, dpc, derr, dview>>

\* the INCENDIARY_PERCENT cells an aggregate over rows reads
IncendiaryRead(rows) ==
    [i \in 1..Len(rows) |->
        [raid_id |-> rows[i].raid_id, x |-> rows[i].TOTAL_TONS,
         v |-> rows[i].INCENDIARY_PERCENT]]

\* bombing_by_year = df.groupby('Year').agg(sum), restricted to 1941..1945,
\* saved as he_vs_incendiary_by_year.png
PBombingByYear ==
    /\ ppc = "bombing_by_year"
    /\ LET df_years == SortedSeq({pdf.rows[i].Year : i \in 1..Len(pdf.rows)})
           bombing_years == SelectSeq(df_years, LAMBDA y : y >= 1941 /\ y <= 1945)
           of(y) == SelectRows(pdf.rows, {i \in 1..Len(pdf.rows) : pdf.rows[i].Year = y})
           shown == SelectRows(pdf.rows,
                       {i \in 1..Len(pdf.rows) :
                           pdf.rows[i].Year >= 1941 /\ pdf.rows[i].Year <= 1945})
       IN outputs' = Append(outputs,
              [fn |-> "he_vs_incendiary_by_year",
               incendiary |-> IncendiaryRead(shown),
               bars |-> [k \in 1..Len(bombing_years) |->
                   [Year |-> bombing_years[k],
                    TOTAL_TONS |-> SumCells(Column(of(bombing_years[k]), "TOTAL_TONS")),
                    HE_TONS |-> SumCells(Column(of(bombing_years[k]), "HE_TONS")),
                    INCENDIARY_TONS |->
                        SumCells(Column(of(bombing_years[k]), "INCENDIARY_TONS"))]],
               files |-> <<[dir |-> "plots/usaaf/general",
                            name |-> <<"he_vs_incendiary_by_year">>]>>])
    /\ ppc' = "quarterly"
    /\ UNCHANGED <<file, pdf, top_cities, ddf, dpc, derr, dview>>

\* Clean_Month = MONTH.fillna(1).astype(int); Quarter = the quarter of Year-Month-01,
\* numbered Year * 4 + (quarter - 1)
QuarterRow(r) ==
    LET m == Val(fillna(r.MONTH, 1))
    IN [Clean_Month |-> m, Quarter |-> r.Year * 4 + ((m - 1) \div 3)] @@ r

\* "4. Monthly Progression of Bombing Scores": quarterly_data = groupby('Quarter')
\* means and raid count; only quarters with at least 10 raids are plotted
PQuarterly ==
    /\ ppc = "quarterly"
    /\ LET rows == [i \in 1..Len(pdf.rows) |-> QuarterRow(pdf.rows[i])]
           quarters == SortedSeq({rows[i].Quarter : i \in 1..Len(rows)})
           of(q) == SelectRows(rows, {i \in 1..Len(rows) : rows[i].Quarter = q})
           quarterly_data ==
               [k \in 1..Len(quarters) |->
                   [Quarter |-> quarters[k],
                    Avg_Score |->
                        [sum |-> SumCells([i \in 1..Len(of(quarters[k])) |->
                                      <<of(quarters[k])[i].AREA_BOMBING_SCORE_NORMALIZED>>]),
                         n |-> Len(of(quarters[k]))],
                    Avg_Tonnage |-> MeanCells(Column(of(quarters[k]), "TOTAL_TONS")),
                    Avg_Incendiary |->
                        MeanCells(Column(of(quarters[k]), "INCENDIARY_PERCENT")),
                    Raid_Count |-> Len(of(quarters[k]))]]
       IN /\ pdf' = [columns |-> pdf.columns \cup {"Clean_Month", "Quarter_Date", "Quarter"},
                     rows |-> rows]
          /\ outputs' = Append(outputs,
                [fn |-> "quarterly_metrics_evolution",
                 incendiary |-> IncendiaryRead(rows),
                 quarterly_data |-> quarterly_data,
                 plotted |-> SelectSeq(quarterly_data, LAMBDA g : g.Raid_Count >= 10),
                 files |-> <<[dir |-> "plots/usaaf/general",
                              name |-> <<"quarterly_metrics_evolution">>]>>])
    /\ ppc' = "done"
    /\ UNCHANGED <<file, top_cities, ddf, dpc, derr, dview>>

\* The derivation of the script on a table: Year (lines 24-29), Location (line
\* 32) and Score Category (lines 146-149), row by row
PlotDerivation(rows) ==
    [i \in 1..Len(rows) |->
        ScoreCategoryRow(PlotLocationRow(PlotYearRow(rows[i])))]

----------------------------------------------------------------------------
(* Dashboard *)

\* one row of the dashboard's Year derivation (the offset is not missing)
DashYearRow(r) == [Year |-> DashClampYear(RawYear(Val(r.YEAR)))] @@ r

DashLocationRow(r) == [r EXCEPT !.target_location = StrStripUpper(r.target_location)]

\* load_data(): the table, or an empty DataFrame and an error message when
\* anything in the try block raises.  astype(int) raises on a missing YEAR.
load_data ==
    LET data == file
        derive == "Year" \notin data.columns /\ "YEAR" \in data.columns
        failed == [data |-> EmptyDataFrame, error |-> TRUE]
    IN IF ReadCsvRaises(file) THEN failed
       ELSE IF derive /\ \E i \in 1..Len(data.rows) : IsNaN(data.rows[i].YEAR)
       THEN failed
       ELSE LET d1 == IF derive
                      THEN [columns |-> data.columns \cup {"Year"},
                            rows |-> [i \in 1..Len(data.rows) |-> DashYearRow(data.rows[i])]]
                      ELSE data
            IN IF ~StrAccessorOK(d1.rows)
               THEN failed
               ELSE [data |-> [d1 EXCEPT !.rows = [i \in 1..Len(d1.rows) |-> DashLocationRow(d1.rows[i])]],
                     error |-> FALSE]

\* The derivation of load_data on a table without a missing YEAR: Year (lines
\* 98-101) and the normalized target_location (line 104), row by row
DashDerivation(rows) ==
    [i \in 1..Len(rows) |-> DashLocationRow(DashYearRow(rows[i]))]

\* sorted(df[col].unique()) for a column of string cells, as a list of cells.
\* sorted() compares the values: a missing cell (a float) next to a string
\* raises TypeError; a missing cell alone is returned as it is.
sorted_unique(cells) ==
    LET u == UniqueSeq(cells)
        S == {u[i] : i \in 1..Len(u)}
    IN IF NaN \in S /\ Len(u) >= 2 THEN [raised |-> TRUE, list |-> <<>>]
       ELSE IF NaN \in S THEN [raised |-> FALSE, list |-> u]
       ELSE [raised |-> FALSE,
             list |-> LET q == SortedStrings({Val(c) : c \in S})
                      IN [i \in 1..Len(q) |-> <<q[i]>>]]

\* "Load data for filters": df = load_data(), then the three filter lists; any
\* exception empties all three (a table without the column raises KeyError)
DLoadData ==
    /\ dpc = "start"
    /\ ddf' = load_data.data
    /\ derr' = load_data.error
    /\ LET df == load_data.data
           cs == IF "target_location" \in df.columns
                 THEN sorted_unique(Column(df.rows, "target_location"))
                 ELSE [raised |-> TRUE, list |-> <<>>]
           cats == IF "CATEGORY" \in df.columns
                   THEN sorted_unique([i \in 1..Len(df.rows) |->
                            IF IsNaN(df.rows[i].CATEGORY) THEN NaN
                            ELSE << <<Val(df.rows[i].CATEGORY)>> >>])
                   ELSE [raised |-> TRUE, list |-> <<>>]
       IN IF cs.raised \/ cats.raised
          THEN cities' = <<>> /\ categories' = <<>> /\ years' = <<>>
          ELSE /\ cities' = cs.list
               /\ categories' = cats.list
               /\ years' = [i \in 1..6 |-> 1939 + i]
    /\ dpc' = "loaded"
    /\ UNCHANGED <<file, pdf, ppc, top_cities, outputs, screen>>

\* os.path.exists(path): the chart files saved so far
exists(path) ==
    \E k \in 1..Len(outputs) : \E j \in 1..Len(outputs[k].files) : outputs[k].files[j] = path

\* img = load_image(path); if img: st.image(img) -- for a chart of the General
\* Analysis page: load_image reports a file it cannot open with st.error
GeneralImage(dir, name) ==
    IF exists(ChartFile(dir, name))
    THEN [kind |-> "image", path |-> ChartFile(dir, name)]
    ELSE [kind |-> "error", path |-> ChartFile(dir, name)]

\* if os.path.exists(path): the image; else: st.info("No ... visualization
\* available for ...") -- for a chart of a category or of a year
\* (f"{PLOT_PATH}/{dir}/{kind}_{group}_{selected.lower()}.png")
ChartOrInfo(dir, kind, group, selected) ==
    LET path == [dir |-> dir, name |-> <<kind, "_", group, "_">> \o lower(selected)]
    IN IF exists(path) THEN [kind |-> "image", path |-> path]
       ELSE [kind |-> "info", path |-> path]

\* the five charts of a Category Analysis or Year Analysis page, in page order
GroupCharts(dir, group, selected) ==
    <<ChartOrInfo(dir, "score_distribution", group, selected),
      ChartOrInfo(dir, "tonnage_vs_incendiary", group, selected),
      ChartOrInfo(dir, "scores_by_target_type", group, selected),
      ChartOrInfo(dir, "component_radar", group, selected),
      ChartOrInfo(dir, "category_pie", group, selected)>>

\* get_filtered_df with the city compared as it is given, not upper-cased
get_filtered_df_as_given(df, filter_type, filter_value) ==
    IF filter_type = "city"
    THEN SelectRows(df, {i \in 1..Len(df) : df[i].target_location = <<filter_value>>})
    ELSE IF filter_type = "category"
    THEN SelectRows(df, {i \in 1..Len(df) :
                            ~IsNaN(df[i].CATEGORY) /\ <<Val(df[i].CATEGORY)>> = filter_value})
    ELSE IF filter_type = "year"
    THEN SelectRows(df, {i \in 1..Len(df) : df[i].Year = filter_value})
    ELSE df

\* get_filtered_df(df, filter_type, filter_value): the rows selected by a
\* boolean mask, in the order of df; a category is a string of one word
get_filtered_df(df, filter_type, filter_value) ==
    IF filter_type = "city"
    THEN SelectRows(df, {i \in 1..Len(df) : df[i].target_location = <<upper(filter_value)>>})
    ELSE IF filter_type = "category"
    THEN SelectRows(df, {i \in 1..Len(df) :
                            ~IsNaN(df[i].CATEGORY) /\ <<Val(df[i].CATEGORY)>> = filter_value})
    ELSE IF filter_type = "year"
    THEN SelectRows(df, {i \in 1..Len(df) : df[i].Year = filter_value})
    ELSE df

\* display_data_table(df, num_rows=10)
num_rows == 10

\* the search terms typed into "Search by target name"; the empty one is no search
SearchTerms == {<<>>, <<"a">>}

\* Series.str.contains(pat, case=False, na=False) on one cell, for a pattern of
\* letters: the pattern occurs in the string, letter case ignored
contains(c, pat) ==
    /\ ~IsNaN(c)
    /\ \E k \in 1..(Len(Val(c)) - Len(pat) + 1) :
          lower(SubSeq(Val(c), k, k + Len(pat) - 1)) = lower(pat)

\* filtered_df: the rows whose target_name contains the search term, or df
\* itself when no term was typed
search_filter(df, search_term) ==
    IF search_term # <<>>
    THEN SelectRows(df, {i \in 1..Len(df) : contains(df[i].target_name, search_term)})
    ELSE df

\* max_value of the "Starting row" input
max_start(filtered_df) ==
    IF Len(filtered_df) - num_rows > 0 THEN Len(filtered_df) - num_rows ELSE 0

\* what the user can enter into the widgets of the table: a search term and a
\* starting row between min_value and max_value
TableInputs(df) ==
    UNION {{[search_term |-> t, start_idx |-> s] :
               s \in 0..max_start(search_filter(df, t))} : t \in SearchTerms}

\* the raid_id column of a table
raid_ids(df) == [i \in 1..Len(df) |-> df[i].raid_id]

\* display_data_table with the page ended one row early
display_data_table_short_page(df, search_term, start_idx) ==
    IF Len(df) > 0
    THEN LET filtered_df == search_filter(df, search_term)
             end_idx == IF start_idx + num_rows - 1 < Len(filtered_df)
                        THEN start_idx + num_rows - 1 ELSE Len(filtered_df)
         IN <<[kind |-> "table",
               showing |-> IF num_rows < Len(df) THEN num_rows ELSE Len(df),
               of |-> Len(df),
               search_term |-> search_term,
               start_idx |-> start_idx,
               filtered |-> raid_ids(filtered_df),
               rows |-> raid_ids(SubSeq(filtered_df, start_idx + 1, end_idx))]>>
    ELSE <<>>

\* display_data_table(df): nothing for an empty table, else the expander with
\* the header "Showing min(num_rows, len(df)) of len(df) raids", the search
\* box, the starting row and filtered_df.iloc[start_idx:end_idx]
display_data_table(df, search_term, start_idx) ==
    IF Len(df) > 0
    THEN LET filtered_df == search_filter(df, search_term)
             end_idx == IF start_idx + num_rows < Len(filtered_df)
                        THEN start_idx + num_rows ELSE Len(filtered_df)
         IN <<[kind |-> "table",
               showing |-> IF num_rows < Len(df) THEN num_rows ELSE Len(df),
               of |-> Len(df),
               search_term |-> search_term,
               start_idx |-> start_idx,
               filtered |-> raid_ids(filtered_df),
               rows |-> raid_ids(SubSeq(filtered_df, start_idx + 1, end_idx))]>>
    ELSE <<>>

\* One run of app.py loads the data for the filters and then renders the page
\* chosen in the sidebar; a rerun is another run of the same steps.

\* page == "General Analysis": title, the charts, then the complete table
DGeneralAnalysis ==
    /\ dpc = "loaded"
    /\ \E in \in TableInputs(ddf.rows) :
       screen' =
          [page |-> "General Analysis",
           df |-> raid_ids(ddf.rows),
           elements |->
              <<[kind |-> "title"],
                GeneralImage("plots/usaaf/general", "overall_score_distribution"),
                GeneralImage("plots/usaaf/general", "tonnage_distribution"),
                GeneralImage("plots/usaaf/general", "he_vs_incendiary_by_year"),
                GeneralImage("plots/usaaf/general", "tonnage_vs_score_relationship"),
                GeneralImage("plots/usaaf/general", "quarterly_metrics_evolution"),
                GeneralImage("plots/usaaf/general", "tonnage_distribution_by_category"),
                GeneralImage("plots/usaaf/general", "year_category_score_heatmap"),
                GeneralImage("plots/usaaf/general", "monthly_score_progression"),
                GeneralImage("plots/usaaf/years", "category_by_year")>>
              \o display_data_table(ddf.rows, in.search_term, in.start_idx)]
    /\ dpc' = "rendered"
    /\ UNCHANGED <<file, pdf, ppc, top_cities, outputs, ddf, derr,
                   cities, categories, years>>

\* the path of a city chart as get_cities_with_visualizations builds it
\* (f"{PLOT_PATH}/cities/{kind}_city_{city_lower}.png")
CityChartPath(kind, city_lower) ==
    [dir |-> "plots/usaaf/cities", name |-> <<kind, "_", "city", "_">> \o city_lower]

\* get_cities_with_visualizations(): each city of the list with whether one of
\* its four charts is on disk; a city that is not a string has no lower(), and
\* the except branch then marks every city False
get_cities_with_visualizations ==
    IF \E k \in 1..Len(cities) : IsNaN(cities[k])
    THEN [k \in 1..Len(cities) |-> [city |-> cities[k], has_viz |-> FALSE]]
    ELSE [k \in 1..Len(cities) |->
             LET city_lower == lower(Val(cities[k]))
             IN [city |-> cities[k],
                 has_viz |->
                    \/ exists(CityChartPath("score_distribution", city_lower))
                    \/ exists(CityChartPath("tonnage_vs_incendiary", city_lower))
                    \/ exists(CityChartPath("scores_by_target_type", city_lower))
                    \/ exists(CityChartPath("category_pie", city_lower))]]

\* f"{city}": a missing city is written nan
Format(city) == IF IsNaN(city) THEN <<"n", "a", "n">> ELSE Val(city)

\* the option f"{city} {mark}", mark a check mark if has_viz else a circle: the
\* marks as one character each
CityOption(city, has_viz) ==
    Format(city) \o <<" ", IF has_viz THEN "check" ELSE "circle">>

RECURSIVE split_first(_)
\* s.split(' ')[0]: the part of s before its first space
split_first(s) ==
    IF s = <<>> \/ Head(s) = " " THEN <<>> ELSE <<Head(s)>> \o split_first(Tail(s))

\* the four charts of a City Analysis page, in page order
CityCharts(selected_city) ==
    <<ChartOrInfo("plots/usaaf/cities", "score_distribution", "city", selected_city),
      ChartOrInfo("plots/usaaf/cities", "tonnage_vs_incendiary", "city", selected_city),
      ChartOrInfo("plots/usaaf/cities", "scores_by_target_type", "city", selected_city),
      ChartOrInfo("plots/usaaf/cities", "category_pie", "city", selected_city)>>

\* page == "City Analysis": the selectbox over the marked cities (None when the
\* list is empty), the city taken back out of the chosen option, then -- unless
\* that name is empty -- the four charts or their placeholders, the Schweinfurt
\* section and the table of the city
DCityAnalysis ==
    /\ dpc = "loaded"
    /\ LET cities_with_viz == get_cities_with_visualizations
           city_options == [k \in 1..Len(cities_with_viz) |->
                               CityOption(cities_with_viz[k].city, cities_with_viz[k].has_viz)]
       IN IF city_options = <<>>
          THEN screen' = [page |-> "City Analysis", elements |-> <<[kind |-> "title"]>>]
          ELSE \E k \in 1..Len(city_options) :
                  LET selected_city_option == city_options[k]
                      selected_city == split_first(selected_city_option)
                  IN IF selected_city = <<>>
                     THEN screen' = [page |-> "City Analysis",
                                     option |-> k,
                                     elements |-> <<[kind |-> "title"]>>]
                     ELSE LET city_df == get_filtered_df(ddf.rows, "city", selected_city)
                          IN \E in \in TableInputs(city_df) :
                                screen' =
                                  [page |-> "City Analysis",
                                   option |-> k,
                                   has_viz |-> cities_with_viz[k].has_viz,
                                   selected |-> selected_city,
                                   df |-> raid_ids(city_df),
                                   elements |->
                                      <<[kind |-> "title"], [kind |-> "heading"]>>
                                      \o CityCharts(selected_city)
                                      \o (IF upper(selected_city) = SCHWEINFURT
                                          THEN <<[kind |-> "subheader"]>> ELSE <<>>)
                                      \o display_data_table(city_df, in.search_term,
                                                            in.start_idx)]
    /\ dpc' = "rendered"
    /\ UNCHANGED <<file, pdf, ppc, top_cities, outputs, ddf, derr,
                   cities, categories, years>>

\* page == "Category Analysis": the selectbox over categories (None when the
\* list is empty), then the five charts or their placeholders and the table of
\* the category.  A missing category (nan) is truthy and has no lower().
DCategoryAnalysis ==
    /\ dpc = "loaded"
    /\ IF categories = <<>>
       THEN screen' = [page |-> "Category Analysis", elements |-> <<[kind |-> "title"]>>]
       ELSE \E k \in 1..Len(categories) :
               LET selected_category == categories[k]
               IN IF IsNaN(selected_category)
                  THEN screen' =
                          [page |-> "Category Analysis",
                           elements |-> <<[kind |-> "title"], [kind |-> "heading"],
                                          [kind |-> "exception"]>>]
                  ELSE LET category_df ==
                               get_filtered_df(ddf.rows, "category", Val(selected_category))
                       IN \E in \in TableInputs(category_df) :
                             screen' =
                               [page |-> "Category Analysis",
                                selected |-> Val(selected_category),
                                df |-> raid_ids(category_df),
                                elements |->
                                   <<[kind |-> "title"], [kind |-> "heading"]>>
                                   \o GroupCharts("plots/usaaf/categories", "category",
                                                  Val(selected_category))
                                   \o display_data_table(category_df, in.search_term,
                                                         in.start_idx)]
    /\ dpc' = "rendered"
    /\ UNCHANGED <<file, pdf, ppc, top_cities, outputs, ddf, derr,
                   cities, categories, years>>

\* page == "Year Analysis": the selectbox over years (None when the list is
\* empty), then the five charts or their placeholders and the table of the year
DYearAnalysis ==
    /\ dpc = "loaded"
    /\ IF years = <<>>
       THEN screen' = [page |-> "Year Analysis", elements |-> <<[kind |-> "title"]>>]
       ELSE \E k \in 1..Len(years) :
               LET selected_year == years[k]
                   year_df == get_filtered_df(ddf.rows, "year", selected_year)
               IN \E in \in TableInputs(year_df) :
                     screen' =
                       [page |-> "Year Analysis",
                        selected |-> selected_year,
                        df |-> raid_ids(year_df),
                        elements |->
                           <<[kind |-> "title"], [kind |-> "heading"]>>
                           \o GroupCharts("plots/usaaf/years", "year",
                                          <<YearStr(selected_year)>>)
                           \o display_data_table(year_df, in.search_term, in.start_idx)]
    /\ dpc' = "rendered"
    /\ UNCHANGED <<file, pdf, ppc, top_cities, outputs, ddf, derr,
                   cities, categories, years>>

----------------------------------------------------------------------------
Init ==
    /\ file \in Files \cup {NoFile}
    /\ pdf = EmptyDataFrame
    /\ ppc = "load"
    /\ top_cities = <<>>
    /\ outputs = <<>>
    /\ ddf = EmptyDataFrame
    /\ dpc = "start"
    /\ derr = FALSE
    /\ cities = <<>>
    /\ categories = <<>>
    /\ years = <<>>
    /\ screen = <<>>

Next ==
    \/ PLoad
    \/ PCleanYear
    \/ PLocation
    \/ PTopCities
    \/ PScoreCategory
    \/ PPlotsByYear
    \/ PYearEvolution
    \/ PPlotsByCategory
    \/ PPlotsByCity
    \/ PCityComparison
    \/ PRafComparison
    \/ PGeneral
    \/ PIncendiaryVsHE
    \/ PBombingByYear
    \/ PQuarterly
    \/ DLoadData

Spec == Init /\ [][Next]_vars

----------------------------------------------------------------------------
(* The dashboard in use: the script and the dashboard as above, with the pages
   of the dashboard rendered at any time after the load, on files with one
   group of every size up to MaxGroup and on the files with spaced locations
   and boundary years *)

InitPages ==
    /\ file \in GroupFiles \cup BrowseFiles \cup {NoFile}
    /\ pdf = EmptyDataFrame
    /\ ppc = "load"
    /\ top_cities = <<>>
    /\ outputs = <<>>
    /\ ddf = EmptyDataFrame
    /\ dpc = "start"
    /\ derr = FALSE
    /\ cities = <<>>
    /\ categories = <<>>
    /\ years = <<>>
    /\ screen = <<>>

NextPages ==
    \/ Next
    \/ DGeneralAnalysis
    \/ DCityAnalysis
    \/ DCategoryAnalysis
    \/ DYearAnalysis

SpecPages == InitPages /\ [][NextPages]_vars

----------------------------------------------------------------------------
(* Claims *)

PlotHas(col) == col \in pdf.columns
DashHas(col) == col \in ddf.columns

\* the raw year 1940 + offset of file row i, as an integer (offset present)
FileRawYear(i) == RawYear(Val(file.rows[i].YEAR))

WholeOffset(i) ==
    ~IsNaN(file.rows[i].YEAR) /\ Val(file.rows[i].YEAR) % YearDen = 0

\* the bin of a score with closed-left/open-right bins, the last closed on both ends
LeftClosedBin(s) ==
    CASE 0 <= s /\ s < 2 * ScoreDen -> "Very Precise (0-2)"
      [] 2 * ScoreDen <= s /\ s < 4 * ScoreDen -> "Precise (2-4)"
      [] 4 * ScoreDen <= s /\ s < 6 * ScoreDen -> "Mixed (4-6)"
      [] 6 * ScoreDen <= s /\ s < 8 * ScoreDen -> "Area (6-8)"
      [] 8 * ScoreDen <= s /\ s <= 10 * ScoreDen -> "Heavy Area (8-10)"

\* C1: for every raid row, score_category is the bin that contains the score
\* under closed-left/open-right bins with boundaries 2, 4, 6, 8 (Heavy Area
\* closed at 10), so a score equal to 2, 4, 6 or 8 is in the upper bin.  Stated
\* for the rows that were given a category; C2 is about the rows given none.
C1_CategoryIsLeftClosedBin ==
    PlotHas("Score Category") =>
        \A i \in 1..Len(pdf.rows) :
            ~IsNaN(pdf.rows[i].Score_Category) =>
                Val(pdf.rows[i].Score_Category) =
                    LeftClosedBin(pdf.rows[i].AREA_BOMBING_SCORE_NORMALIZED)

\* C2: every raid whose score lies in [0,10], 0 and 10 included, is assigned
\* exactly one of the five category labels; none is left uncategorized.
C2_EveryScoreCategorized ==
    PlotHas("Score Category") =>
        \A i \in 1..Len(pdf.rows) :
            (pdf.rows[i].AREA_BOMBING_SCORE_NORMALIZED \in 0..(10 * ScoreDen)) =>
                /\ ~IsNaN(pdf.rows[i].Score_Category)
                /\ \E k \in 1..Len(Labels) : Val(pdf.rows[i].Score_Category) = Labels[k]

ScoreInRange(s) == 0 <= s /\ s <= 10 * ScoreDen

C4_DashYearIn1940To1946 ==
    (dpc = "loaded" /\ DashHas("Year")) =>
        \A i \in 1..Len(ddf.rows) :
            WholeOffset(i) => ddf.rows[i].Year \in 1940..1946

\* the year nearest to y in the window lo..hi
Nearest(y, lo, hi) == IF y < lo THEN lo ELSE IF y > hi THEN hi ELSE y

\* C5: clamping maps every out-of-range raw year to the nearest boundary of the
\* valid window (below it: the lowest year, above it: the highest year), in the
\* dashboard loader (window 1940..1946) and in the plotting script (1941..1946).
C5_ClampToNearestBoundary ==
    /\ (dpc = "loaded" /\ DashHas("Year")) =>
          \A i \in 1..Len(ddf.rows) :
              ddf.rows[i].Year = Nearest(FileRawYear(i), 1940, 1946)
    /\ PlotHas("Year") =>
          \A i \in 1..Len(pdf.rows) :
              ~IsNaN(file.rows[i].YEAR) =>
                  pdf.rows[i].Year = Nearest(FileRawYear(i), 1941, 1946)

\* C6: in load_data a raw year below 1939 becomes 1940, a raw year above 1946
\* becomes 1945 and every other raw year is kept; offset 0 gives 1940 and
\* offset -5 gives 1940.
C6_DashClampPolicy ==
    (dpc = "loaded" /\ DashHas("Year")) =>
        \A i \in 1..Len(ddf.rows) :
            /\ FileRawYear(i) < 1939 => ddf.rows[i].Year = 1940
            /\ FileRawYear(i) > 1946 => ddf.rows[i].Year = 1945
            /\ (FileRawYear(i) >= 1939 /\ FileRawYear(i) <= 1946) =>
                   ddf.rows[i].Year = FileRawYear(i)
            /\ file.rows[i].YEAR = <<0>> => ddf.rows[i].Year = 1940
            /\ file.rows[i].YEAR = <<(-5) * YearDen>> => ddf.rows[i].Year = 1940

\* C6 witness: a loaded table with a raw year below 1939 (offset -5) next to a
\* raw year of 1939 or above 1946.
C6_Witness ==
    /\ dpc = "loaded" /\ DashHas("Year")
    /\ \E i, j \in 1..Len(ddf.rows) :
          /\ file.rows[i].YEAR = <<(-5) * YearDen>> /\ ddf.rows[i].Year = 1940
          /\ FileRawYear(j) \in {1939, 1947}

\* C7: in the plotting script (missing offset read as 0) a raw year below 1941
\* becomes 1941, a raw year above 1946 becomes 1945, every other raw year is
\* kept, and every Year lies in [1941, 1946].
C7_PlotClampPolicy ==
    PlotHas("Year") =>
        \A i \in 1..Len(pdf.rows) :
            LET raw == RawYear(IF IsNaN(file.rows[i].YEAR) THEN 0
                               ELSE Val(file.rows[i].YEAR))
            IN /\ raw < 1941 => pdf.rows[i].Year = 1941
               /\ raw > 1946 => pdf.rows[i].Year = 1945
               /\ (raw >= 1941 /\ raw <= 1946) => pdf.rows[i].Year = raw
               /\ pdf.rows[i].Year \in 1941..1946

\* C7 witness: a table with a missing offset (Year 1941) and a raw year of 1946
\* or more.
C7_Witness ==
    /\ PlotHas("Year")
    /\ \E i, j \in 1..Len(pdf.rows) :
          /\ IsNaN(file.rows[i].YEAR) /\ pdf.rows[i].Year = 1941
          /\ ~IsNaN(file.rows[j].YEAR) /\ FileRawYear(j) >= 1946

\* C8: from the same offset the dashboard and the plotting script derive
\* different Years exactly when the raw year is below 1941 (dashboard 1940, or
\* 1939 for raw 1939; plotting 1941); from 1941 on they agree.
C8_YearPoliciesDiffer ==
    (dpc = "loaded" /\ DashHas("Year") /\ PlotHas("Year")) =>
        \A i \in 1..Len(ddf.rows) :
            /\ (ddf.rows[i].Year # pdf.rows[i].Year) <=> (FileRawYear(i) < 1941)
            /\ FileRawYear(i) < 1941 =>
                  /\ pdf.rows[i].Year = 1941
                  /\ ddf.rows[i].Year = IF FileRawYear(i) = 1939 THEN 1939 ELSE 1940
            /\ FileRawYear(i) >= 1941 => ddf.rows[i].Year = pdf.rows[i].Year

\* C8 witness: both programs derived Year from a table with raw year 1939 and a
\* raw year of 1941 or more.
C8_Witness ==
    /\ dpc = "loaded" /\ DashHas("Year") /\ PlotHas("Year")
    /\ \E i, j \in 1..Len(ddf.rows) :
          /\ FileRawYear(i) = 1939 /\ ddf.rows[i].Year = 1939
          /\ FileRawYear(j) >= 1941

\* C9: a row with a missing YEAR offset is recovered by default substitution:
\* the load does not fail and the loaded table holds every row with a Year in
\* the valid window, in load_data and in the plotting script.  (The window is
\* taken as the years each program keeps, 1939..1946 and 1941..1946.)
C9_MissingOffsetRecovered ==
    (\E i \in 1..Len(file.rows) : IsNaN(file.rows[i].YEAR)) =>
        /\ dpc = "loaded" =>
              /\ ~derr
              /\ Len(ddf.rows) = Len(file.rows)
              /\ \A i \in 1..Len(ddf.rows) : ddf.rows[i].Year \in 1939..1946
        /\ PlotHas("Year") =>
              /\ Len(pdf.rows) = Len(file.rows)
              /\ \A i \in 1..Len(pdf.rows) : pdf.rows[i].Year \in 1941..1946

\* C10: a missing INCENDIARY_PERCENT is read as 0 by every output that uses the
\* incendiary percentage: the per-year, per-category and per-city
\* tonnage-vs-incendiary charts, the HE/incendiary tonnage and the quarterly
\* aggregates.
C10_MissingIncendiaryIsZero ==
    \A k \in 1..Len(outputs) :
        \A p \in 1..Len(outputs[k].incendiary) :
            IsNaN(file.rows[outputs[k].incendiary[p].raid_id].INCENDIARY_PERCENT) =>
                outputs[k].incendiary[p].v = <<0>>

\* C11: a raid with an out-of-domain value (negative TOTAL_TONS, or
\* INCENDIARY_PERCENT outside [0,100]) is rejected or clamped before it enters
\* the derived quantities: HE_PERCENT lies in [0,100] and HE_TONS and
\* INCENDIARY_TONS are not negative, in every row and in every yearly sum.
C11_DerivedQuantitiesInDomain ==
    /\ PlotHas("HE_PERCENT") =>
          \A i \in 1..Len(pdf.rows) :
              /\ Val(pdf.rows[i].HE_PERCENT) \in 0..100
              /\ ~IsNaN(pdf.rows[i].HE_TONS) => Val(pdf.rows[i].HE_TONS) >= 0
              /\ ~IsNaN(pdf.rows[i].INCENDIARY_TONS) =>
                     Val(pdf.rows[i].INCENDIARY_TONS) >= 0
    /\ \A k \in 1..Len(outputs) :
          outputs[k].fn = "he_vs_incendiary_by_year" =>
              \A b \in 1..Len(outputs[k].bars) :
                  /\ outputs[k].bars[b].HE_TONS >= 0
                  /\ outputs[k].bars[b].INCENDIARY_TONS >= 0

\* the script has stopped: it ran to its end or an uncaught exception ended it
PlotEnded == ppc \in {"done", "aborted"}

Produced(fn) == \E k \in 1..Len(outputs) : outputs[k].fn = fn

\* C12: a failure in one chart group does not abort the charts after it:
\* whatever goes wrong in the USAAF/RAF comparison section, failing to read its
\* input file included, the general campaign visualizations that follow it are
\* still generated.  (The section is entered once category_by_city is saved.)
C12_GeneralChartsSurviveComparison ==
    (PlotEnded /\ Produced("category_by_city")) =>
        /\ Produced("overall_score_distribution")
        /\ Produced("tonnage_distribution")

\* C13: when the processed raid file is missing or malformed the run is fatal
\* and surfaces a clear message: the plotting script generates no chart, and the
\* dashboard reports the error and does not go on to render a data-dependent
\* page (the page code puts nothing on the screen).
C13_MissingFileIsFatal ==
    ReadCsvRaises(file) =>
        /\ outputs = <<>>
        /\ ppc \in {"load", "aborted"}
        /\ dpc # "start" => derr
        /\ dpc = "rendered" => screen.elements = <<>>

\* C14: no raid record is mutated after classification: once Score Category is
\* assigned, no later step of the plotting pipeline changes the value of an
\* input column of any row of the scored table.
C14_NoMutationAfterClassification ==
    [][PlotHas("Score Category") =>
          /\ Len(pdf'.rows) = Len(pdf.rows)
          /\ \A i \in 1..Len(pdf.rows) :
                \A col \in FileColumns : pdf'.rows[i][col] = pdf.rows[i][col]]_vars

\* the percentages of one row of a percentage table add up to 100
SumsTo100(row) ==
    \E c \in DOMAIN row :
        /\ row[c].den > 0
        /\ RowSum([x \in DOMAIN row |-> row[x].num]) = 100 * row[c].den

\* C15: for every grouping key whose group is not empty, the percentages of the
\* group's raids across the score categories add up to 100: for every plotted
\* year in year_cat_pct and for every raided top city in city_categories_pct.
C15_CategoryPercentagesSumTo100 ==
    \A k \in 1..Len(outputs) :
        /\ outputs[k].fn = "category_by_year" =>
              \A y \in {pdf.rows[i].Year : i \in 1..Len(pdf.rows)} \cap 1941..1945 :
                  /\ y \in DOMAIN outputs[k].year_cat_pct
                  /\ SumsTo100(outputs[k].year_cat_pct[y])
        /\ outputs[k].fn = "category_by_city" =>
              \A t \in 1..Len(top_cities) :
                  RowsAt(pdf.rows, top_cities[t]) # {} =>
                      /\ top_cities[t] \in DOMAIN outputs[k].city_categories_pct
                      /\ SumsTo100(outputs[k].city_categories_pct[top_cities[t]])

\* the record of one generate_plots call lists a file of the given kind
Saved(call, kind) == \E j \in 1..Len(call.files) : call.files[j].name[1] = kind

\* the chart slots of a rendered Category Analysis or Year Analysis page
ChartSlots(s) ==
    {e \in {s.elements[i] : i \in 1..Len(s.elements)} : e.kind \in {"image", "info"}}

C17_NormalizationIdempotent ==
    /\ PlotHas("Location") =>
          \A i \in 1..Len(pdf.rows) :
              StrStripUpper(pdf.rows[i].Location) = pdf.rows[i].Location
    /\ (dpc # "start" /\ ~derr) =>
          \A i \in 1..Len(ddf.rows) :
              StrStripUpper(ddf.rows[i].target_location) = ddf.rows[i].target_location

\* C17 witness: both programs normalized a location that carried surrounding
\* whitespace and a lower-case letter.
C17_Witness ==
    /\ PlotHas("Location") /\ dpc # "start" /\ ~derr
    /\ \E i \in 1..Len(pdf.rows) :
          /\ file.rows[i].target_location = << <<" ", "a", " ">> >>
          /\ pdf.rows[i].Location = << <<"A">> >>
          /\ ddf.rows[i].target_location = << <<"A">> >>

\* the normalized location of file row i
FileLocation(i) == StrStripUpper(file.rows[i].target_location)

\* C18: after loading, no two distinct city groups differ only by letter case
\* or surrounding whitespace: the Location groups of the plotting script and the
\* city selector list of the dashboard hold one entry per normalized location,
\* and raids whose raw locations normalize to the same string are in the same
\* group.
C18_OneGroupPerNormalizedLocation ==
    /\ PlotHas("Location") =>
          \A i, j \in 1..Len(pdf.rows) :
              (pdf.rows[i].Location = pdf.rows[j].Location)
                  <=> (FileLocation(i) = FileLocation(j))
    /\ (dpc # "start" /\ ~derr) =>
          /\ \A i \in 1..Len(file.rows) :
                ~IsNaN(FileLocation(i)) =>
                    Cardinality({k \in 1..Len(cities) : cities[k] = FileLocation(i)}) = 1
          /\ \A k, l \in 1..Len(cities) :
                k # l => StrStripUpper(cities[k]) # StrStripUpper(cities[l])

PlotDerived(r) ==
    [Year |-> r.Year, Location |-> r.Location, Score_Category |-> r.Score_Category]

\* the derived columns of a row of the dashboard's table
DashDerived(r) == [Year |-> r.Year, target_location |-> r.target_location]

----------------------------------------------------------------------------
\* the positions of the rows of a table that match a filter
MatchingRows(df, filter_type, filter_value) ==
    {i \in 1..Len(df) :
        CASE filter_type = "city" ->
                 /\ ~IsNaN(df[i].target_location)
                 /\ Val(df[i].target_location) = upper(filter_value)
          [] filter_type = "category" ->
                 /\ ~IsNaN(df[i].CATEGORY)
                 /\ <<Val(df[i].CATEGORY)>> = filter_value
          [] filter_type = "year" -> df[i].Year = filter_value
          [] OTHER -> TRUE}

\* result holds exactly the matching rows of the table, in its order (the
\* raid ids of a table rise with its rows)
ExactlyMatching(result, df, filter_type, filter_value) ==
    /\ {result[k] : k \in 1..Len(result)} =
          {df[i] : i \in MatchingRows(df, filter_type, filter_value)}
    /\ \A k \in 1..(Len(result) - 1) : result[k].raid_id < result[k + 1].raid_id

\* the filters a caller can pass: the three kinds with values that occur, values
\* in another letter case and values that do not occur, and an unknown kind
FilterCalls ==
    ({"city"} \X {<<"A">>, <<"a">>, <<"B">>, <<"A", " ", "B">>, <<"a", " ", "b">>, <<>>})
    \cup ({"category"} \X {<<"OIL">>, <<"oil">>, <<"RAIL">>})
    \cup ({"year"} \X (1939..1946))
    \cup ({"region"} \X {<<"A">>})

\* the filter kind behind a page
PageFilter(page) ==
    CASE page = "City Analysis" -> "city"
      [] page = "Category Analysis" -> "category"
      [] page = "Year Analysis" -> "year"

\* C21: get_filtered_df returns exactly the rows of df that match, in the
\* original order -- for "city" the rows whose target_location equals the
\* upper-cased value, for "category" those whose CATEGORY equals the value
\* exactly, for "year" those whose Year equals the value, for any other kind
\* df itself -- and df is left as it was: for every call a caller can make on
\* a table just loaded, and on every rendering of a page for the table the
\* page filtered.
C21_FilteredRowsExact ==
    [][/\ (dpc = "start" /\ dpc' = "loaded" /\ ~derr') =>
             /\ \A c \in FilterCalls :
                   ExactlyMatching(get_filtered_df(ddf'.rows, c[1], c[2]),
                                   ddf'.rows, c[1], c[2])
             /\ get_filtered_df(ddf'.rows, "region", <<"A">>) = ddf'.rows
       /\ (dpc = "loaded" /\ dpc' = "rendered") =>
             /\ ddf' = ddf
             /\ "selected" \in DOMAIN screen' =>
                   LET keep == MatchingRows(ddf.rows, PageFilter(screen'.page),
                                            screen'.selected)
                   IN /\ Len(screen'.df) = Cardinality(keep)
                      /\ {screen'.df[k] : k \in 1..Len(screen'.df)} =
                            {ddf.rows[i].raid_id : i \in keep}
                      /\ \A k \in 1..(Len(screen'.df) - 1) :
                            screen'.df[k] < screen'.df[k + 1]
      ]_vars

\* a city page was rendered whose table holds some but not all raids
C21_Witness ==
    /\ dpc = "rendered"
    /\ screen.page = "City Analysis"
    /\ "selected" \in DOMAIN screen
    /\ screen.df # <<>>
    /\ Len(screen.df) < Len(ddf.rows)

----------------------------------------------------------------------------
\* the table handed to display_data_table by the page on screen, as raid ids
ShownTable == IF "df" \in DOMAIN screen THEN screen.df ELSE <<>>

\* the raids of the loaded table at a city of the selector, as raid ids
RaidsAt(city) ==
    raid_ids(SelectRows(ddf.rows,
                 {i \in 1..Len(ddf.rows) : ddf.rows[i].target_location = city}))

\* C22: for every city offered in the City Analysis selector whose name is not
\* empty, selecting it shows in the raid data table exactly the raids whose
\* normalized target_location is that city, a name with a space included.
C22_CityTableShowsSelectedCity ==
    (dpc = "rendered" /\ screen.page = "City Analysis" /\ "option" \in DOMAIN screen
        /\ cities[screen.option] # << <<>> >>) =>
        ShownTable = RaidsAt(cities[screen.option])

----------------------------------------------------------------------------
\* the chart kinds a page of the dashboard looks up for a group of that kind
PageKinds(group) ==
    IF group = "city"
    THEN {"score_distribution", "tonnage_vs_incendiary", "scores_by_target_type",
          "category_pie"}
    ELSE {"score_distribution", "tonnage_vs_incendiary", "scores_by_target_type",
          "component_radar", "category_pie"}

\* the name the page of the dashboard works with when the group is selected:
\* a city is taken back out of its option, a category or year is used as it is
PageSelected(group, name) ==
    IF group = "city" THEN split_first(CityOption(<<name>>, TRUE)) ELSE name

\* the generate_plots call wrote the charts of group (kind of group, name)
\* and the page of that group finds every one of them it looks up
PageFindsCharts(call) ==
    LET group == Lower(call.group_name[1])
        name == SubSeq(call.group_name, 3, Len(call.group_name))
    IN \A j \in 1..Len(call.files) :
          call.files[j].name[1] \in PageKinds(group) =>
              call.files[j] =
                  [dir |-> call.files[j].dir,
                   name |-> <<call.files[j].name[1], "_", group, "_">>
                            \o lower(PageSelected(group, name))]

\* C23: the chart file name the dashboard looks up for a city, category or
\* year is the name under which the plotting script saved that group's chart,
\* for every group for which generate_plots wrote a chart, names with a space
\* included; and the availability mark of a city in the selector agrees with
\* what the city page then displays: marked iff the page shows a chart.
C23_DashboardFindsSavedCharts ==
    /\ \A k \in 1..Len(outputs) :
          outputs[k].fn = "generate_plots" => PageFindsCharts(outputs[k])
    /\ (dpc = "rendered" /\ screen.page = "City Analysis" /\ "has_viz" \in DOMAIN screen) =>
          (screen.has_viz <=> \E e \in ChartSlots(screen) : e.kind = "image")

----------------------------------------------------------------------------
\* the data tables on screen
Tables == {e \in {screen.elements[i] : i \in 1..Len(screen.elements)} : e.kind = "table"}

\* the table the page on screen handed to display_data_table
ShownRows ==
    SelectRows(ddf.rows,
        {i \in 1..Len(ddf.rows) :
            \E k \in 1..Len(ShownTable) : ShownTable[k] = ddf.rows[i].raid_id})

\* C24: the page of display_data_table is within bounds: with n the number of
\* search-filtered rows, the starting row is in [0, max(0, n - num_rows)], the
\* rows displayed are rows start .. min(start + num_rows, n) - 1 of the
\* filtered table, at most num_rows of them, and every row of the filtered
\* table is displayed for some starting row the input permits.
C24_PageWithinBounds ==
    (dpc = "rendered") =>
        \A e \in Tables :
            LET n == Len(e.filtered)
                last == IF e.start_idx + num_rows < n THEN e.start_idx + num_rows ELSE n
                df == ShownRows
                pages == {display_data_table(df, in.search_term, in.start_idx)[1].rows :
                             in \in {i \in TableInputs(df) : i.search_term = e.search_term}}
                paged == UNION {{p[k] : k \in 1..Len(p)} : p \in pages}
            IN /\ e.start_idx >= 0
               /\ e.start_idx <= (IF n - num_rows > 0 THEN n - num_rows ELSE 0)
               /\ e.rows = [k \in 1..(last - e.start_idx) |-> e.filtered[e.start_idx + k]]
               /\ Len(e.rows) <= num_rows
               /\ \A j \in 1..n : e.filtered[j] \in paged

\* a search narrowed a table to still more than one page, shown from a
\* starting row inside the table
C24_Witness ==
    /\ dpc = "rendered"
    /\ \E e \in Tables :
          /\ e.search_term # <<>>
          /\ Len(e.filtered) < e.of
          /\ Len(e.filtered) > num_rows
          /\ e.start_idx > 0
          /\ e.start_idx + num_rows = Len(e.filtered)

----------------------------------------------------------------------------
\* C25: the "Showing X of Y raids" header of the data table states the number
\* of rows displayed (X) and the number of rows of the table being paged (Y),
\* also when a search term has narrowed the table.
C25_HeaderStatesDisplayedRows ==
    (dpc = "rendered") =>
        \A e \in Tables : e.showing = Len(e.rows) /\ e.of = Len(e.filtered)

----------------------------------------------------------------------------
\* the raids in the data table of the Year Analysis page for a year
YearTable(y) == raid_ids(get_filtered_df(ddf.rows, "year", y))

\* C26: every raid of the loaded table is reachable through the Year Analysis
\* page: once the selectors are populated, the year selector offers every Year
\* that occurs in the loaded data, and each raid is in the data table of
\* exactly one selectable year.
C26_EveryRaidUnderOneSelectableYear ==
    (dpc # "start" /\ ~derr /\ years # <<>>) =>
        \A i \in 1..Len(ddf.rows) :
            /\ \E k \in 1..Len(years) : years[k] = ddf.rows[i].Year
            /\ Cardinality({k \in 1..Len(years) :
                               \E j \in 1..Len(YearTable(years[k])) :
                                   YearTable(years[k])[j] = ddf.rows[i].raid_id}) = 1

----------------------------------------------------------------------------
\* C27: a problem with one filter dimension does not disable the others: when
\* the processed file loads but some row has a missing target_location, the
\* category and year selectors are still populated from the loaded data.
C27_MissingLocationKeepsOtherSelectors ==
    (dpc # "start" /\ ~derr
        /\ \E i \in 1..Len(ddf.rows) : IsNaN(ddf.rows[i].target_location)) =>
            /\ categories # <<>>
            /\ \A i \in 1..Len(ddf.rows) :
                  \E k \in 1..Len(categories) :
                      categories[k] = <<<<Val(ddf.rows[i].CATEGORY)>>>>
            /\ years # <<>>

----------------------------------------------------------------------------
\* the script is past "Creating city comparison plots"
PastCityComparison ==
    ppc \in {"raf_comparison", "general", "incendiary_vs_he", "bombing_by_year",
             "quarterly", "done"}

\* SCHWEINFURT is among the head(50) of some order of the raid counts
SchweinfurtInTop50 ==
    \E q \in ValueCountsOrders(pdf.rows) :
        \E i \in 1..Len(head(q, 50)) : head(q, 50)[i] = SCHWEINFURT

\* C28: Schweinfurt is always part of the city analysis: whenever SCHWEINFURT
\* is not among the 50 most-raided locations it is added to the city list, and
\* once the city sections have run the standard per-city plots have been
\* generated for it and the city comparison charts have a row for it.
C28_SchweinfurtAlwaysAnalysed ==
    (PastCityComparison /\ ~SchweinfurtInTop50) =>
        /\ \E i \in 1..Len(top_cities) : top_cities[i] = SCHWEINFURT
        /\ \E k \in 1..Len(outputs) :
              /\ outputs[k].fn = "generate_plots"
              /\ outputs[k].group_name = <<"City", " ">> \o SCHWEINFURT
        /\ \E k \in 1..Len(outputs) :
              /\ outputs[k].fn = "category_by_city"
              /\ SCHWEINFURT \in DOMAIN outputs[k].city_categories_pct

----------------------------------------------------------------------------
\* the script went through the USAAF/RAF comparison section and on: the
\* combined classification file was read (a failed read ends the script)
PastRafComparison ==
    ppc \in {"general", "incendiary_vs_he", "bombing_by_year", "quarterly", "done"}

\* C29: whenever the combined classification file loads successfully, the
\* USAAF-vs-RAF score-distribution and category comparison charts are
\* produced: once the script is past the comparison section both files are
\* written.
C29_RafComparisonProduced ==
    PastRafComparison =>
        /\ exists(ChartFile("plots/usaaf", "usaaf_vs_raf_score_distribution"))
        /\ exists(ChartFile("plots/usaaf", "usaaf_vs_raf_categories"))

====
